---- MODULE Spec2Model ----
(***************************************************************************)
(* Model of src/src/common.ts: ObjectToStructConverter (convert /          *)
(* encodeValue_), isPlainObject with its identity-keyed cache, and the     *)
(* decoder structToObj / decodeValue.                                      *)
(*                                                                         *)
(* JavaScript values are records tagged by t.  A composite value is a      *)
(* reference [t |-> "ref", id |-> n] to a node of the heap, so identity,   *)
(* sharing and cycles are those of the object graph.  The encoder runs as  *)
(* a call stack: one frame per convert call in progress and one per        *)
(* Array.prototype.map call in progress.                                   *)
(***************************************************************************)
EXTENDS Integers, Sequences, FiniteSets, TLC

VARIABLES
    heap,           \* the caller's object graph: node id -> object or array
    removeCircular, \* this.removeCircular
    stringify,      \* this.stringify
    seenObjects,    \* this.seenObjects
    cache,          \* _isPlainObjectCache: node id -> boolean, for the ids set
    stack,          \* frames of the convert / map calls in progress
    status,         \* "idle" | "running" | "returned" | "thrown"
    root,           \* the argument of the current or last top-level convert
    result,         \* what the last top-level convert returned
    error,          \* what the last top-level convert threw
    clean,          \* no top-level convert on this instance has thrown yet
    wire,           \* the decoder's argument
    decoded         \* what the decoder returned for wire

vars == <<heap, removeCircular, stringify, seenObjects, cache, stack, status,
          root, result, error, clean, wire, decoded>>

----------------------------------------------------------------------------
(* Bounds *)

\* Frames the call stack holds before the engine raises RangeError.
MaxDepth == 6
\* Longest array of the heap.
MaxLen == 2

----------------------------------------------------------------------------
(* JavaScript values *)

None == [t |-> "none"]
Undefined == [t |-> "undefined"]
Null == [t |-> "null"]
Bool(b) == [t |-> "boolean", v |-> b]
Num(n) == [t |-> "number", v |-> n]
Str(s) == [t |-> "string", v |-> s]
Buf(bytes) == [t |-> "buffer", v |-> bytes]
Fn(name) == [t |-> "function", v |-> name]
Ref(n) == [t |-> "ref", id |-> n]
Hole == [t |-> "hole"]

\* typeof value
Typeof(v) ==
    CASE v.t = "undefined" -> "undefined"
      [] v.t = "boolean" -> "boolean"
      [] v.t = "number" -> "number"
      [] v.t = "string" -> "string"
      [] v.t = "function" -> "function"
      [] v.t = "symbol" -> "symbol"
      [] v.t = "bigint" -> "bigint"
      [] OTHER -> "object"          \* null, Buffer, arrays, every other object

----------------------------------------------------------------------------
(* Prototypes and constructors: what isPlainObject inspects *)

\* The constructor functions a prototype's own 'constructor' property may hold.
\*   typeof constr, constr instanceof constr, Object.prototype.toString.call(constr)
Constructors ==
    [ Object      |-> [typeof |-> "function", instanceofSelf |-> TRUE,
                       toString |-> "[object Function]"],
      RealmObject |-> [typeof |-> "function", instanceofSelf |-> TRUE,
                       toString |-> "[object Function]"],
      Point       |-> [typeof |-> "function", instanceofSelf |-> FALSE,
                       toString |-> "[object Function]"] ]

\* The prototypes an object of the heap may have: none (Object.create(null)),
\* Object.prototype, the Object.prototype of another realm, the prototype of
\* a class Point, and an object created from Object.prototype.
\* ownConstructor is "" when the prototype has no own 'constructor' property;
\* enumerable lists the enumerable properties an object inherits from it (what
\* for-in adds to the object's own keys) and inherited gives their values;
\* string is String(value) of an object with this prototype.
Protos ==
    [ null    |-> [ownConstructor |-> "", enumerable |-> <<>>, inherited |-> <<>>,
                   string |-> "[object Object]"],
      Object  |-> [ownConstructor |-> "Object", enumerable |-> <<>>, inherited |-> <<>>,
                   string |-> "[object Object]"],
      Realm   |-> [ownConstructor |-> "RealmObject", enumerable |-> <<"z">>,
                   inherited |-> [z |-> Num(0)], string |-> "[object Object]"],
      Point   |-> [ownConstructor |-> "Point", enumerable |-> <<"z">>,
                   inherited |-> [z |-> Num(0)], string |-> "Point(1,2)"],
      Derived |-> [ownConstructor |-> "", enumerable |-> <<>>, inherited |-> <<>>,
                   string |-> "[object Object]"] ]

\* ClassifyProto without the test `constr instanceof constr`.
ClassifyProtoAnyFunction(p) ==
    IF p \in {"null", "Object"}
    THEN TRUE
    ELSE IF Protos[p].ownConstructor # ""
         THEN LET constr == Constructors[Protos[p].ownConstructor] IN
              IF /\ constr.typeof = "function"
                 /\ constr.toString = "[object Function]"
              THEN TRUE
              ELSE FALSE
         ELSE FALSE

\* isPlainObject's classification of an object whose prototype is p, cache aside.
ClassifyProto(p) ==
    IF p \in {"null", "Object"}
    THEN TRUE
    ELSE IF Protos[p].ownConstructor # ""
         THEN LET constr == Constructors[Protos[p].ownConstructor] IN
              IF /\ constr.typeof = "function"
                 /\ constr.instanceofSelf
                 /\ constr.toString = "[object Function]"
              THEN TRUE
              ELSE FALSE
         ELSE FALSE

\* isPlainObject(mixed): the cached answer when there is one.
isPlainObject(h, c, n) ==
    IF n \in DOMAIN c THEN c[n] ELSE ClassifyProto(h[n].proto)

\* _isPlainObjectCache after isPlainObject(mixed).
CacheAfter(h, c, n) ==
    IF n \in DOMAIN c THEN c ELSE c @@ (n :> ClassifyProto(h[n].proto))

----------------------------------------------------------------------------
(* The heap: the object graph handed to the encoder *)

Objects == {"o1", "o2"}
Arrays == {"l1"}
Nodes == Objects \cup Arrays

\* Own enumerable keys, in insertion order (the order for-in visits them).
KeyOrder == <<"a", "b">>
Keys == {KeyOrder[i] : i \in DOMAIN KeyOrder}

Object(p, own) == [kind |-> "object", proto |-> p, own |-> own, elems |-> <<>>]
Array(elems) == [kind |-> "array", proto |-> "Array", own |-> <<>>, elems |-> elems]

\* Array.isArray(value), Buffer.isBuffer(value)
IsArray(h, v) == v.t = "ref" /\ h[v.id].kind = "array"
IsBuffer(v) == v.t = "buffer"

\* Subsequence of s whose elements satisfy membership in S.
RECURSIVE SelectIn(_, _)
SelectIn(s, S) ==
    IF s = <<>> THEN <<>>
    ELSE IF Head(s) \in S THEN <<Head(s)>> \o SelectIn(Tail(s), S)
         ELSE SelectIn(Tail(s), S)

\* The properties `for (const prop in obj)` visits: the own enumerable keys,
\* then the enumerable keys inherited from the prototype that no own key shadows.
ForIn(h, n) ==
    LET own == DOMAIN h[n].own
        inherited == Protos[h[n].proto].enumerable
    IN SelectIn(KeyOrder, own)
         \o SelectIn(inherited, {inherited[i] : i \in DOMAIN inherited} \ own)

\* HasOwn with the hasOwnProperty guard left out: every property for-in visits.
HasOwnOrInherited(h, n, prop) == TRUE

\* Object.prototype.hasOwnProperty.call(obj, prop)
HasOwn(h, n, prop) == prop \in DOMAIN h[n].own

\* obj[prop] for a property for-in visits.
GetProp(h, n, prop) ==
    IF prop \in DOMAIN h[n].own THEN h[n].own[prop] ELSE Protos[h[n].proto].inherited[prop]

\* String(value) for an object that is neither array, Buffer nor plain.
StringOf(h, n) == Protos[h[n].proto].string

----------------------------------------------------------------------------
(* The encoder: ObjectToStructConverter *)

UnsupportedUndefined ==
    [name |-> "UnsupportedType", message |-> "Value of type undefined not recognized."]
UnsupportedObject ==
    [name |-> "UnsupportedType", message |-> "Value of type object not recognized."]
CircularReference ==
    [name |-> "CircularReference",
     message |-> "This object contains a circular reference. To automatically remove it, set the removeCircular option to true."]
StackExhausted ==
    [name |-> "RangeError", message |-> "Maximum call stack size exceeded"]

\* What one activation of encodeValue_ does before it returns or recurses.
Return(tv) == [do |-> "return", val |-> tv, err |-> None, node |-> ""]
Throw(e) == [do |-> "throw", val |-> None, err |-> e, node |-> ""]
CallMap(n) == [do |-> "map", val |-> None, err |-> None, node |-> n]
CallConvert(n) == [do |-> "convert", val |-> None, err |-> None, node |-> n]

\* EncodeObject without the look-up in seenObjects.
EncodeObjectNoSeenCheck(h, seen, c, rc, sf, value) ==
    IF IsArray(h, value)
    THEN CallMap(value.id)
    ELSE IF IsBuffer(value)
    THEN Return([blobValue |-> value])
    ELSE IF isPlainObject(h, c, value.id)
    THEN CallConvert(value.id)
    ELSE IF ~sf
         THEN Throw(UnsupportedObject)
         ELSE Return([stringValue |-> Str(StringOf(h, value.id))])

\* The branch of encodeValue_ for a value that is typeof 'object', not null.
EncodeObject(h, seen, c, rc, sf, value) ==
    IF IsArray(h, value)
    THEN CallMap(value.id)
    ELSE IF IsBuffer(value)
    THEN Return([blobValue |-> value])
    ELSE IF isPlainObject(h, c, value.id)
    THEN IF value.id \in seen
         THEN IF ~rc
              THEN Throw(CircularReference)
              ELSE Return([stringValue |-> Str("[Circular]")])
         ELSE CallConvert(value.id)
    ELSE IF ~sf
         THEN Throw(UnsupportedObject)
         ELSE Return([stringValue |-> Str(StringOf(h, value.id))])

\* encodeValue_ without `case void 0`: undefined matches no case.
encodeValueNoUndefinedCase(h, seen, c, rc, sf, value) ==
    IF value = Null
    THEN Return([nullValue |-> Num(0)])
    ELSE IF value = Bool(TRUE) \/ value = Bool(FALSE)
    THEN Return([boolValue |-> value])
    ELSE CASE Typeof(value) = "number" -> Return([numberValue |-> value])
           [] Typeof(value) = "string" -> Return([stringValue |-> value])
           [] Typeof(value) = "object" ->
                IF IsArray(h, value)
                THEN CallMap(value.id)
                ELSE IF IsBuffer(value)
                THEN Return([blobValue |-> value])
                ELSE IF isPlainObject(h, c, value.id)
                THEN IF value.id \in seen
                     THEN IF ~rc
                          THEN Throw(CircularReference)
                          ELSE Return([stringValue |-> Str("[Circular]")])
                     ELSE CallConvert(value.id)
                ELSE IF ~sf
                     THEN Throw(UnsupportedObject)
                     ELSE Return([stringValue |-> Str(StringOf(h, value.id))])
           [] OTHER -> Return(Undefined)

\* encodeValue_(value), with this.seenObjects = seen, this.removeCircular = rc,
\* this.stringify = sf and _isPlainObjectCache = c.
encodeValue_(h, seen, c, rc, sf, value) ==
    IF value = Undefined
    THEN Throw(UnsupportedUndefined)
    ELSE IF value = Null
    THEN Return([nullValue |-> Num(0)])
    ELSE IF value = Bool(TRUE) \/ value = Bool(FALSE)
    THEN Return([boolValue |-> value])
    ELSE CASE Typeof(value) = "number" -> Return([numberValue |-> value])
           [] Typeof(value) = "string" -> Return([stringValue |-> value])
           [] Typeof(value) = "object" -> EncodeObject(h, seen, c, rc, sf, value)
           [] OTHER -> Return(Undefined)    \* no case matches: falls off the end

\* Whether encodeValue_(value) consults isPlainObject.
Classifies(h, value) ==
    /\ value.t = "ref"
    /\ ~IsArray(h, value)

\* _isPlainObjectCache after encodeValue_(value) has run up to its outcome.
CacheAfterEncode(h, c, value) ==
    IF Classifies(h, value) THEN CacheAfter(h, c, value.id) ELSE c

\* Call frames.  A convert frame holds the properties for-in has yet to visit
\* and convertedObject.fields so far; a map frame holds the indices yet to
\* visit and the mapped array so far.  The head of todo is the item whose
\* encodeValue_ call is in progress while a callee's frame is above this one.
ConvertFrame(h, n) == [fn |-> "convert", node |-> n, todo |-> ForIn(h, n), acc |-> <<>>]
MapFrame(h, n) ==
    [fn |-> "map", node |-> n,
     todo |-> [i \in 1..Len(h[n].elems) |-> i], acc |-> <<>>]

Top == stack[Len(stack)]

\* The value the top frame hands to encodeValue_ next.
ItemValue(h, f) ==
    IF f.fn = "convert" THEN GetProp(h, f.node, Head(f.todo)) ELSE h[f.node].elems[Head(f.todo)]

\* Store that puts a mapped element in front of the earlier ones.
StoreInFront(f, tv) ==
    IF f.fn = "convert"
    THEN [f EXCEPT !.acc = (Head(f.todo) :> tv) @@ f.acc, !.todo = Tail(f.todo)]
    ELSE [f EXCEPT !.acc = <<tv>> \o f.acc, !.todo = Tail(f.todo)]

\* The frame with tv stored for the item in progress and the item done.
Store(f, tv) ==
    IF f.fn = "convert"
    THEN [f EXCEPT !.acc = (Head(f.todo) :> tv) @@ f.acc, !.todo = Tail(f.todo)]
    ELSE [f EXCEPT !.acc = Append(f.acc, tv), !.todo = Tail(f.todo)]

\* What a finished frame returns to encodeValue_, which returns it wrapped.
FrameValue(f) ==
    IF f.fn = "convert"
    THEN [structValue |-> [fields |-> f.acc]]
    ELSE [listValue |-> [values |-> f.acc]]

ReplaceTop(st, f) == [st EXCEPT ![Len(st)] = f]
Pop(st) == SubSeq(st, 1, Len(st) - 1)

\* SeenAfterReturn without the delete.
SeenKept(seen, f) == seen

\* this.seenObjects after convert's loop has completed normally.
SeenAfterReturn(seen, f) ==
    IF f.fn = "convert" THEN seen \ {f.node} ELSE seen

\* this.seenObjects after a throw has unwound every frame of the stack.
SeenAfterThrow(seen, st) == seen

\* this.seenObjects on entry to a callee.
SeenOnEnter(seen, out) ==
    IF out.do = "convert" THEN seen \cup {out.node} ELSE seen

----------------------------------------------------------------------------
(* The decoder: structToObj / decodeValue *)

\* Reading a property of undefined.
TypeError == [t |-> "TypeError"]

VariantNames ==
    {"nullValue", "boolValue", "numberValue", "stringValue", "blobValue",
     "listValue", "structValue"}

\* value.kind, and value[key] for a key the value may lack.
KindOf(value) == IF "kind" \in DOMAIN value THEN value.kind ELSE "undefined"
Get(value, key) == IF key \in DOMAIN value THEN value[key] ELSE Undefined

RECURSIVE decodeValue(_), structToObj(_), MapDecode(_)

\* value.listValue.values.map(decodeValue): holes stay holes.  ok is FALSE
\* when a call of decodeValue threw.
MapDecode(values) ==
    IF values = <<>> THEN [ok |-> TRUE, v |-> <<>>]
    ELSE LET first == IF Head(values) = Hole THEN Hole ELSE decodeValue(Head(values))
             rest == MapDecode(Tail(values))
         IN IF first = TypeError \/ ~rest.ok
            THEN [ok |-> FALSE, v |-> <<>>]
            ELSE [ok |-> TRUE, v |-> <<first>> \o rest.v]

\* decodeValue without `case 'nullValue'`.
decodeValueNoNullCase(value) ==
    IF value \in {Undefined, Hole, Null}
    THEN TypeError
    ELSE CASE KindOf(value) = "structValue" -> structToObj(Get(value, "structValue"))
           [] KindOf(value) = "listValue" ->
                IF Get(value, "listValue") = Undefined
                THEN TypeError
                ELSE LET mapped == MapDecode(value.listValue.values)
                     IN IF ~mapped.ok THEN TypeError
                        ELSE [t |-> "array", v |-> mapped.v]
           [] OTHER -> Get(value, KindOf(value))

decodeValue(value) ==
    IF value \in {Undefined, Hole, Null}
    THEN TypeError
    ELSE CASE KindOf(value) = "structValue" -> structToObj(Get(value, "structValue"))
           [] KindOf(value) = "nullValue" -> Null
           [] KindOf(value) = "listValue" ->
                IF Get(value, "listValue") = Undefined
                THEN TypeError
                ELSE LET mapped == MapDecode(value.listValue.values)
                     IN IF ~mapped.ok THEN TypeError
                        ELSE [t |-> "array", v |-> mapped.v]
           [] OTHER -> Get(value, KindOf(value))

structToObj(struct) ==
    IF struct = Undefined
    THEN TypeError
    ELSE LET props == DOMAIN struct.fields
             out == [prop \in props |-> decodeValue(struct.fields[prop])]
         IN IF \E prop \in props : out[prop] = TypeError
            THEN TypeError
            ELSE [t |-> "object", v |-> out]

\* The populated variant of a TaggedValue, and the TaggedValue as a protobuf
\* Value message presents it: kind names the populated member of the oneof.
Variant(value) == CHOOSE name \in VariantNames : name \in DOMAIN value

RECURSIVE WithKind(_), StructWithKind(_)

WithKind(value) ==
    IF value \in {Undefined, Hole}
    THEN value
    ELSE LET name == Variant(value)
             payload ==
                CASE name = "structValue" -> StructWithKind(value.structValue)
                  [] name = "listValue" ->
                        [values |-> [i \in DOMAIN value.listValue.values |->
                                        WithKind(value.listValue.values[i])]]
                  [] OTHER -> value[name]
         IN ("kind" :> name) @@ (name :> payload)

StructWithKind(struct) ==
    [fields |-> [prop \in DOMAIN struct.fields |-> WithKind(struct.fields[prop])]]

----------------------------------------------------------------------------
(* Inputs *)

\* What a property or an array element of the heap may hold.
Composites == {Ref(n) : n \in Nodes}
Leaves == {Undefined, Null, Bool(TRUE), Num(1), Str("s"), Buf(<<1>>), Fn("f")}
SlotValues == Composites \cup Leaves
ElemValues == SlotValues \cup {Hole}

\* The prototypes the two objects of the heap are given: at most one of them
\* is not an object literal.
ProtoPairs ==
    {<<"Object", "Object">>, <<"Realm", "Object">>, <<"Point", "Object">>,
     <<"Object", "Point">>, <<"Object", "null">>, <<"Object", "Derived">>}

\* The own keys each object may have.
OwnKeys == [o1 |-> Keys, o2 |-> {"a"}]

\* Properties and elements the whole heap holds at most.
SlotBudget == Cardinality(Nodes)

\* Shapes: which own keys each object has and how long the array is.
Shapes ==
    {sh \in [o1 : SUBSET OwnKeys.o1, o2 : SUBSET OwnKeys.o2, l1 : 0..MaxLen] :
        Cardinality(sh.o1) + Cardinality(sh.o2) + sh.l1 <= SlotBudget}

\* Some property of an object of h holds a reference to node n.
Referenced(h, n) ==
    \E o \in Objects : \E k \in DOMAIN h[o].own : h[o].own[k] = Ref(n)

\* h is one of the heaps handed to the encoder.  An array no object refers to
\* cannot be reached from any argument of convert, and is left empty.
IsInputHeap(h) ==
    \E sh \in Shapes, pp \in ProtoPairs :
        \E f1 \in [sh.o1 -> SlotValues], f2 \in [sh.o2 -> SlotValues],
           e \in [1..sh.l1 -> ElemValues] :
            /\ h = [o1 |-> Object(pp[1], f1), o2 |-> Object(pp[2], f2), l1 |-> Array(e)]
            /\ \A l \in Arrays : h[l].elems # <<>> => Referenced(h, l)

\* The options object handed to the constructor.
OptionValues == {Undefined, Bool(TRUE), Bool(FALSE), Num(1)}
Options == [removeCircular : OptionValues, stringify : OptionValues]

\* The constructor: the fields it sets from options.
Constructor(options) ==
    [seenObjects |-> {},
     removeCircular |-> (options.removeCircular = Bool(TRUE)),
     stringify |-> (options.stringify = Bool(TRUE))]

----------------------------------------------------------------------------
(* State machine *)

Init ==
    /\ \E this \in {Constructor(options) : options \in Options} :
         /\ seenObjects = this.seenObjects
         /\ removeCircular = this.removeCircular
         /\ stringify = this.stringify
    /\ IsInputHeap(heap)
    /\ cache = <<>>
    /\ stack = <<>>
    /\ status = "idle"
    /\ root = ""
    /\ result = None
    /\ error = None
    /\ clean = TRUE
    /\ wire = None
    /\ decoded = None

\* A top-level convert(obj) call: up to the start of the for-in loop.
Convert(obj) ==
    /\ status # "running"
    /\ status' = "running"
    /\ root' = obj
    /\ stack' = <<ConvertFrame(heap, obj)>>
    /\ seenObjects' = seenObjects \cup {obj}
    /\ result' = None
    /\ error' = None
    /\ wire' = None
    /\ decoded' = None
    /\ UNCHANGED <<heap, removeCircular, stringify, cache, clean>>

Running == status = "running" /\ stack # <<>>
Pending == Running /\ Top.todo # <<>>
Outcome ==
    encodeValue_(heap, seenObjects, cache, removeCircular, stringify, ItemValue(heap, Top))

\* for-in reaches an inherited property: hasOwnProperty is false.
SkipInherited ==
    /\ Pending /\ Top.fn = "convert"
    /\ ~HasOwn(heap, Top.node, Head(Top.todo))
    /\ stack' = ReplaceTop(stack, [Top EXCEPT !.todo = Tail(Top.todo)])
    /\ UNCHANGED <<heap, removeCircular, stringify, seenObjects, cache, status,
                   root, result, error, clean, wire, decoded>>

\* for-in reaches an own property whose value is undefined: continue.
SkipUndefined ==
    /\ Pending /\ Top.fn = "convert"
    /\ HasOwn(heap, Top.node, Head(Top.todo))
    /\ ItemValue(heap, Top) = Undefined
    /\ stack' = ReplaceTop(stack, [Top EXCEPT !.todo = Tail(Top.todo)])
    /\ UNCHANGED <<heap, removeCircular, stringify, seenObjects, cache, status,
                   root, result, error, clean, wire, decoded>>

\* map reaches an index the array has no element at: the callback is not called.
SkipHole ==
    /\ Pending /\ Top.fn = "map"
    /\ ItemValue(heap, Top) = Hole
    /\ stack' = ReplaceTop(stack, Store(Top, Hole))
    /\ UNCHANGED <<heap, removeCircular, stringify, seenObjects, cache, status,
                   root, result, error, clean, wire, decoded>>

\* The item the top frame encodes next: an own, defined property or an element.
Encodes ==
    /\ Pending
    /\ IF Top.fn = "convert"
       THEN HasOwn(heap, Top.node, Head(Top.todo)) /\ ItemValue(heap, Top) # Undefined
       ELSE ItemValue(heap, Top) # Hole

\* encodeValue_ returns without recursing; the caller stores what it returned.
EncodeReturn ==
    /\ Encodes /\ Outcome.do = "return"
    /\ stack' = ReplaceTop(stack, Store(Top, Outcome.val))
    /\ cache' = CacheAfterEncode(heap, cache, ItemValue(heap, Top))
    /\ UNCHANGED <<heap, removeCircular, stringify, seenObjects, status,
                   root, result, error, clean, wire, decoded>>

\* encodeValue_ throws: nothing catches, every frame is unwound.
EncodeThrow ==
    /\ Encodes /\ Outcome.do = "throw"
    /\ status' = "thrown"
    /\ error' = Outcome.err
    /\ stack' = <<>>
    /\ seenObjects' = SeenAfterThrow(seenObjects, stack)
    /\ cache' = CacheAfterEncode(heap, cache, ItemValue(heap, Top))
    /\ clean' = FALSE
    /\ UNCHANGED <<heap, removeCircular, stringify, root, result, wire, decoded>>

\* encodeValue_ calls map on an array or convert on a plain object.
EncodeEnter ==
    /\ Encodes /\ Outcome.do \in {"map", "convert"}
    /\ Len(stack) < MaxDepth
    /\ stack' = Append(stack, IF Outcome.do = "map"
                              THEN MapFrame(heap, Outcome.node)
                              ELSE ConvertFrame(heap, Outcome.node))
    /\ seenObjects' = SeenOnEnter(seenObjects, Outcome)
    /\ cache' = CacheAfterEncode(heap, cache, ItemValue(heap, Top))
    /\ UNCHANGED <<heap, removeCircular, stringify, status,
                   root, result, error, clean, wire, decoded>>

\* The same call with the call stack exhausted: the engine throws RangeError.
StackOverflow ==
    /\ Encodes /\ Outcome.do \in {"map", "convert"}
    /\ Len(stack) >= MaxDepth
    /\ status' = "thrown"
    /\ error' = StackExhausted
    /\ stack' = <<>>
    /\ seenObjects' = SeenAfterThrow(seenObjects, stack)
    /\ cache' = CacheAfterEncode(heap, cache, ItemValue(heap, Top))
    /\ clean' = FALSE
    /\ UNCHANGED <<heap, removeCircular, stringify, root, result, wire, decoded>>

\* A nested convert or map has visited everything: it returns to encodeValue_,
\* which returns the wrapped value to the caller's frame.
FrameReturn ==
    /\ Running /\ Top.todo = <<>> /\ Len(stack) > 1
    /\ stack' = ReplaceTop(Pop(stack), Store(stack[Len(stack) - 1], FrameValue(Top)))
    /\ seenObjects' = SeenAfterReturn(seenObjects, Top)
    /\ UNCHANGED <<heap, removeCircular, stringify, cache, status,
                   root, result, error, clean, wire, decoded>>

\* The top-level convert has visited everything: it returns convertedObject.
ConvertReturn ==
    /\ Running /\ Top.todo = <<>> /\ Len(stack) = 1
    /\ stack' = <<>>
    /\ seenObjects' = SeenAfterReturn(seenObjects, Top)
    /\ status' = "returned"
    /\ result' = [fields |-> Top.acc]
    /\ UNCHANGED <<heap, removeCircular, stringify, cache, root, error, clean,
                   wire, decoded>>

\* The caller hands the returned Struct to structToObj: as convert returned it,
\* or as it comes back from the protobuf layer, every Value carrying the
\* name of its populated oneof member in kind.
StructToObjCall ==
    /\ status = "returned"
    /\ \E struct \in {result, StructWithKind(result)} :
         /\ wire' = struct
         /\ decoded' = structToObj(struct)
    /\ status' = "decoded"
    /\ UNCHANGED <<heap, removeCircular, stringify, seenObjects, cache, stack,
                   root, result, error, clean>>

Next ==
    \/ \E obj \in Objects : Convert(obj)
    \/ StructToObjCall
    \/ SkipInherited
    \/ SkipUndefined
    \/ SkipHole
    \/ EncodeReturn
    \/ EncodeThrow
    \/ EncodeEnter
    \/ StackOverflow
    \/ FrameReturn
    \/ ConvertReturn

Spec == Init /\ [][Next]_vars

----------------------------------------------------------------------------
(* The decoder on its own: decodeValue and structToObj applied to messages *)

LeafMessages ==
    {[nullValue |-> Num(0)], [boolValue |-> Bool(TRUE)], [boolValue |-> Bool(FALSE)],
     [numberValue |-> Num(5)], [stringValue |-> Str("a")], [blobValue |-> Buf(<<1>>)]}

ListMessages ==
    {[listValue |-> [values |-> vs]] :
        vs \in UNION {[1..n -> LeafMessages] : n \in 0..MaxLen}}

StructMessages ==
    {[structValue |-> [fields |-> fs]] :
        fs \in UNION {[ks -> {[numberValue |-> Num(5)], [nullValue |-> Num(0)],
                               [stringValue |-> Str("a")]}] : ks \in SUBSET {"q", "r"}}}

Messages == LeafMessages \cup ListMessages \cup StructMessages

\* Structs one level above the messages.
Structs == {[fields |-> fs] : fs \in UNION {[ks -> Messages] : ks \in SUBSET {"p"}}}

\* A message whose kind names a member it does not populate.
Mislabel(value) == ("kind" :> "stringValue") @@ value

DecodeValueInputs ==
    Messages \cup {WithKind(m) : m \in Messages}
        \cup {Mislabel(m) : m \in LeafMessages \ {[stringValue |-> Str("a")]}}
StructToObjInputs == Structs \cup {StructWithKind(st) : st \in Structs}

DecInit ==
    /\ heap = [o1 |-> Object("Object", <<>>), o2 |-> Object("Object", <<>>),
               l1 |-> Array(<<>>)]
    /\ seenObjects = {}
    /\ removeCircular = FALSE
    /\ stringify = FALSE
    /\ cache = <<>>
    /\ stack = <<>>
    /\ status \in {"decodeValue", "structToObj"}
    /\ wire \in IF status = "decodeValue" THEN DecodeValueInputs ELSE StructToObjInputs
    /\ root = ""
    /\ result = None
    /\ error = None
    /\ clean = TRUE
    /\ decoded = None

DecodeValueInput ==
    /\ status = "decodeValue"
    /\ decoded' = decodeValue(wire)
    /\ status' = "decoded"
    /\ UNCHANGED <<heap, removeCircular, stringify, seenObjects, cache, stack,
                   root, result, error, clean, wire>>

StructToObjInput ==
    /\ status = "structToObj"
    /\ decoded' = structToObj(wire)
    /\ status' = "decoded"
    /\ UNCHANGED <<heap, removeCircular, stringify, seenObjects, cache, stack,
                   root, result, error, clean, wire>>

DecNext ==
    \/ DecodeValueInput
    \/ StructToObjInput

DecSpec == DecInit /\ [][DecNext]_vars

----------------------------------------------------------------------------
(* Vocabulary of the properties *)

Ended == status \in {"returned", "thrown", "decoded"}
Succeeded == status \in {"returned", "decoded"}

\* The values node n holds, and the nodes it refers to.
Slots(h, n) ==
    {h[n].own[k] : k \in DOMAIN h[n].own} \cup {h[n].elems[i] : i \in DOMAIN h[n].elems}
Succ(h, n) == {v.id : v \in {x \in Slots(h, n) : x.t = "ref"}}

\* An object isPlainObject classifies as plain.
Plain(h, n) == h[n].kind = "object" /\ ClassifyProto(h[n].proto)

\* The least set that holds S and, with each node of it that is in Through,
\* the nodes that node refers to.
RECURSIVE Closure(_, _, _)
Closure(h, S, Through) ==
    LET T == S \cup UNION {Succ(h, m) : m \in S \cap Through}
    IN IF T = S THEN S ELSE Closure(h, T, Through)

ReachPlus(h, n) == Closure(h, Succ(h, n), Nodes)
ReachStar(h, n) == {n} \cup ReachPlus(h, n)

\* v is acyclic plain data: from it only arrays and plain objects are reached,
\* none of them from itself, holding null, booleans, numbers, strings, bytes.
PlainLeaf(v) == v.t \in {"null", "boolean", "number", "string", "buffer"}
PlainData(h, n) ==
    \A m \in ReachStar(h, n) :
        /\ h[m].kind = "object" => Plain(h, m)
        /\ \A v \in Slots(h, m) : v.t = "ref" \/ PlainLeaf(v)
        /\ m \notin ReachPlus(h, m)

\* The native value v of heap h as a tree.
RECURSIVE ToTree(_, _)
ToTree(h, v) ==
    IF v.t # "ref" THEN v
    ELSE IF h[v.id].kind = "array"
    THEN [t |-> "array", v |-> [i \in DOMAIN h[v.id].elems |-> ToTree(h, h[v.id].elems[i])]]
    ELSE [t |-> "object", v |-> [k \in DOMAIN h[v.id].own |-> ToTree(h, h[v.id].own[k])]]

\* The convert frames of the stack: the objects whose convert call is in progress.
Converting == {stack[i].node : i \in {j \in DOMAIN stack : stack[j].fn = "convert"}}

\* A TaggedValue with exactly one populated variant and nothing else, all the
\* way down; and the same with kind naming the populated variant.
RECURSIVE Tagged(_, _)
Tagged(value, extra) ==
    /\ \E name \in VariantNames : DOMAIN value = {name} \cup extra
    /\ "kind" \in extra => value.kind = Variant(value)
    /\ "listValue" \in DOMAIN value =>
         \A i \in DOMAIN value.listValue.values :
            /\ value.listValue.values[i] \notin {Undefined, Hole}
            /\ Tagged(value.listValue.values[i], extra)
    /\ "structValue" \in DOMAIN value =>
         \A prop \in DOMAIN value.structValue.fields :
            /\ value.structValue.fields[prop] \notin {Undefined, Hole}
            /\ Tagged(value.structValue.fields[prop], extra)

TaggedStruct(struct, extra) ==
    \A prop \in DOMAIN struct.fields :
        /\ struct.fields[prop] \notin {Undefined, Hole}
        /\ Tagged(struct.fields[prop], extra)

\* What decoding by the populated variant gives.
RECURSIVE Expected(_)
Expected(value) ==
    LET name == Variant(value) IN
    CASE name = "nullValue" -> Null
      [] name = "structValue" ->
            [t |-> "object",
             v |-> [prop \in DOMAIN value.structValue.fields |->
                        Expected(value.structValue.fields[prop])]]
      [] name = "listValue" ->
            [t |-> "array",
             v |-> [i \in DOMAIN value.listValue.values |->
                        Expected(value.listValue.values[i])]]
      [] OTHER -> value[name]

ExpectedOf(arg) ==
    IF "fields" \in DOMAIN arg THEN Expected([structValue |-> arg]) ELSE Expected(arg)
TaggedArg(arg, extra) ==
    IF "fields" \in DOMAIN arg THEN TaggedStruct(arg, extra) ELSE Tagged(arg, extra)

----------------------------------------------------------------------------
(* C1: round trip *)

\* C1, as stated: for acyclic plain data v with no undefined member, convert
\* succeeds and structToObj applied to the Struct exactly as convert returned
\* it gives back v.
C1_RoundTripUnchanged ==
    /\ Ended /\ PlainData(heap, root) => Succeeded
    /\ status = "decoded" /\ wire = result /\ PlainData(heap, root)
         => decoded = ToTree(heap, Ref(root))

\* C1, amended: for acyclic plain data v with no undefined member, convert
\* succeeds and structToObj gives back v when every TaggedValue of the Struct
\* carries, in kind, the name of its populated variant.
C1_RoundTripLabelled ==
    /\ Ended /\ PlainData(heap, root) => Succeeded
    /\ status = "decoded" /\ wire = StructWithKind(result) /\ PlainData(heap, root)
         => decoded = ToTree(heap, Ref(root))

\* A nested value has made the round trip: an object inside an array inside
\* the root.
C1_Witness ==
    /\ status = "decoded" /\ wire = StructWithKind(result) /\ PlainData(heap, root)
    /\ root = "o1"
    /\ heap["o1"].own = [a |-> Ref("l1")]
    /\ heap["l1"].elems = <<Ref("o2")>>
    /\ heap["o2"].own = [a |-> Str("s")]
    /\ decoded = [t |-> "object",
                  v |-> [a |-> [t |-> "array",
                                v |-> <<[t |-> "object", v |-> [a |-> Str("s")]]>>]]]

----------------------------------------------------------------------------
(* C2: decoding selects the case *)

\* C2, as stated: a TaggedValue with exactly one populated variant field and
\* no other field decodes by that variant: null for nullValue, the decoded
\* object for structValue, the decoded elements in order for listValue, the
\* payload otherwise.
C2_DecodeByPopulatedVariant ==
    status = "decoded" /\ TaggedArg(wire, {}) => decoded = ExpectedOf(wire)

\* C2, amended: a TaggedValue with exactly one populated variant field whose
\* kind field names that variant decodes by it.
C2_DecodeByKind ==
    status = "decoded" /\ TaggedArg(wire, {"kind"}) => decoded = ExpectedOf(wire)

\* The list of the example, labelled, has been decoded to ["a", null].
C2_Witness ==
    /\ status = "decoded"
    /\ wire = WithKind([listValue |-> [values |-> <<[stringValue |-> Str("a")],
                                                    [nullValue |-> Num(0)]>>]])
    /\ decoded = [t |-> "array", v |-> <<Str("a"), Null>>]

----------------------------------------------------------------------------
(* C3: the visiting set after a call *)

\* C3: once a top-level convert has ended, by returning or by throwing,
\* seenObjects is empty.
C3_SeenReleased == Ended => seenObjects = {}

----------------------------------------------------------------------------
(* C4: circular references *)

Circular == [stringValue |-> Str("[Circular]")]

\* encodeValue_ is about to encode a plain object that is in seenObjects.
MeetsSeen ==
    /\ Encodes
    /\ ItemValue(heap, Top).t = "ref"
    /\ Plain(heap, ItemValue(heap, Top).id)
    /\ ItemValue(heap, Top).id \in seenObjects

\* o.self = o, converted.
SelfReference == heap[root].own = [a |-> Ref(root)] /\ Plain(heap, root)

\* C4: when encodeValue_ meets a plain object that is in seenObjects, then
\* with removeCircular false the conversion fails with CircularReference, and
\* with removeCircular true "[Circular]" is stored at that position, no call
\* descends into the object and the conversion goes on (it never fails with
\* CircularReference); o with o.self = o converts to
\* fields.self = {stringValue: "[Circular]"}.
C4_CircularPolicy ==
    [][ /\ MeetsSeen =>
             IF removeCircular
             THEN /\ status' = "running"
                  /\ stack' = ReplaceTop(stack, Store(Top, Circular))
                  /\ seenObjects' = seenObjects
             ELSE /\ status' = "thrown"
                  /\ error'.name = "CircularReference"
        /\ (status' = "thrown" /\ removeCircular) => error'.name # "CircularReference"
        /\ (Ended' /\ SelfReference') =>
             IF removeCircular
             THEN Succeeded' /\ result' = [fields |-> [a |-> Circular]]
             ELSE status' = "thrown" /\ error'.name = "CircularReference"
      ]_vars

\* o with o.self = o has been converted with removeCircular = true.
C4_Witness ==
    /\ status = "returned" /\ removeCircular
    /\ root = "o1" /\ heap["o1"].own = [a |-> Ref("o1")]
    /\ result = [fields |-> [a |-> Circular]]

----------------------------------------------------------------------------
(* C5: undefined properties are left out *)

DefinedOwnKeys(h, n) == {k \in DOMAIN h[n].own : h[n].own[k] # Undefined}

\* C5: when a convert call, top-level or nested, completes, the keys of the
\* fields it returns are exactly the own keys of its argument whose value is
\* not undefined; {a: 1, b: undefined} gives fields = {a: {numberValue: 1}}.
C5_UndefinedOmitted ==
    /\ (Running /\ Top.fn = "convert" /\ Top.todo = <<>>)
         => DOMAIN Top.acc = DefinedOwnKeys(heap, Top.node)
    /\ Succeeded => DOMAIN result.fields = DefinedOwnKeys(heap, root)
    /\ (Ended /\ heap[root].own = [a |-> Num(1), b |-> Undefined])
         => Succeeded /\ result = [fields |-> [a |-> [numberValue |-> Num(1)]]]

\* {a: 1, b: undefined}, an object that also inherits an enumerable key, has
\* been converted.
C5_Witness ==
    /\ status = "returned"
    /\ heap[root].own = [a |-> Num(1), b |-> Undefined]
    /\ heap[root].proto = "Realm"
    /\ result = [fields |-> [a |-> [numberValue |-> Num(1)]]]

----------------------------------------------------------------------------
(* C6: opaque values *)

\* encodeValue_ is about to encode an object that is no array, no Buffer and
\* that isPlainObject does not classify as plain.
MeetsOpaque ==
    /\ Encodes
    /\ ItemValue(heap, Top).t = "ref"
    /\ heap[ItemValue(heap, Top).id].kind = "object"
    /\ ~Plain(heap, ItemValue(heap, Top).id)

\* No convert call below the top-level one is on an instance of a class or
\* on an object created from another.
NotDescended ==
    \A i \in DOMAIN stack :
        (i > 1 /\ stack[i].fn = "convert")
            => heap[stack[i].node].proto \notin {"Point", "Derived"}

\* C6: when encodeValue_ meets an object that is no array, no Buffer and not
\* plain, it throws UnsupportedType with stringify false and returns
\* {stringValue: String(value)} with stringify true, and no call descends
\* into the object.
C6_OpaquePolicy ==
    [][ /\ MeetsOpaque =>
             IF stringify
             THEN /\ status' = "running"
                  /\ stack' = ReplaceTop(stack,
                        Store(Top, [stringValue |->
                                      Str(StringOf(heap, ItemValue(heap, Top).id))]))
                  /\ seenObjects' = seenObjects
             ELSE /\ status' = "thrown"
                  /\ error' = UnsupportedObject
        /\ NotDescended'
      ]_vars

\* An instance of Point that has a property of its own has been stringified.
C6_Witness ==
    /\ status = "returned" /\ stringify
    /\ root = "o1" /\ heap["o1"].own = [a |-> Ref("o2")]
    /\ heap["o2"].proto = "Point" /\ heap["o2"].own = [a |-> Num(1)]
    /\ result = [fields |-> [a |-> [stringValue |-> Str("Point(1,2)")]]]

----------------------------------------------------------------------------
(* C7: no partial result *)

\* The nodes a conversion of r enters: r, and the arrays and plain objects
\* referred to from a node it enters.
Descendable(h) == {n \in Nodes : h[n].kind = "array" \/ Plain(h, n)}
Entered(h, r) == {r} \cup (Closure(h, Succ(h, r), Descendable(h)) \cap Descendable(h))

\* The nodes entered while plain object x is being converted.
EnteredUnder(h, x) == Closure(h, {x}, Descendable(h)) \cap Descendable(h)

\* Encoding some value nested in r fails on an encoder that has not failed
\* before: an undefined element of an array, an object that is not plain with
\* stringify false, or, with removeCircular false, a plain object referred to
\* from inside itself.
NestedFailure(h, r, rc, sf) ==
    \E m \in Entered(h, r) :
        \/ h[m].kind = "array" /\ Undefined \in Slots(h, m)
        \/ /\ ~sf
           /\ \E x \in Succ(h, m) : h[x].kind = "object" /\ ~Plain(h, x)
        \/ /\ ~rc
           /\ \E x \in Succ(h, m) :
                /\ Plain(h, x)
                /\ x \in Entered(h, r)
                /\ m \in EnteredUnder(h, x)

\* encodeValue_ is about to encode a value that fails: an undefined element,
\* an object that is not plain with stringify false, a plain object in
\* seenObjects with removeCircular false.
MeetsFailure ==
    \/ Encodes /\ ItemValue(heap, Top) = Undefined
    \/ MeetsOpaque /\ ~stringify
    \/ MeetsSeen /\ ~removeCircular

UndefinedInList ==
    heap[root].own = [a |-> Ref("l1")] /\ heap["l1"].elems = <<Num(1), Undefined>>

\* C7: when encoding a value at any depth fails, the top-level convert fails
\* and returns nothing; a call returns a Struct only if no value nested in its
\* argument fails to encode (on an encoder none of whose calls has thrown);
\* {a: [1, undefined]} fails with UnsupportedType.
C7_NoPartialResult ==
    [][ /\ MeetsFailure => (status' = "thrown" /\ result' = None /\ stack' = <<>>)
        /\ status' = "thrown" => result' = None
        /\ Succeeded' => error' = None
        /\ (Succeeded' /\ clean')
             => ~NestedFailure(heap', root', removeCircular', stringify')
        /\ (Ended' /\ UndefinedInList')
             => (status' = "thrown" /\ error' = UnsupportedUndefined)
      ]_vars

\* {a: [1, undefined]} has failed with UnsupportedType, after the 1 had been
\* encoded.
C7_Witness ==
    /\ status = "thrown" /\ error = UnsupportedUndefined /\ result = None
    /\ UndefinedInList

----------------------------------------------------------------------------
(* C8: what encodeValue_ returns *)

\* C8: every entry of fields and every element of values in a Struct that
\* convert returns is a TaggedValue with exactly one populated variant.
C8_SumType == Succeeded => TaggedStruct(result, {})

----------------------------------------------------------------------------
(* C9: the visiting set is the stack of ancestors *)

\* a = {}; o = {x: a, y: a}
SharedObject ==
    /\ root = "o1"
    /\ heap["o1"].own = [a |-> Ref("o2"), b |-> Ref("o2")]
    /\ heap["o2"].own = <<>> /\ Plain(heap, "o2")

EmptyStruct == [structValue |-> [fields |-> <<>>]]

\* C9: on an encoder none of whose calls has thrown, seenObjects is, at every
\* point of a conversion, the set of the objects whose convert call is in
\* progress; a = {}, o = {x: a, y: a} converts to a structValue at x and at y
\* whatever removeCircular is.
C9_SeenIsAncestors ==
    /\ (Running /\ clean) => seenObjects = Converting
    /\ (Ended /\ SharedObject)
         => Succeeded /\ result = [fields |-> [a |-> EmptyStruct, b |-> EmptyStruct]]

\* The shared object is being converted for the second time, its first
\* conversion over.
C9_Witness ==
    /\ Running /\ clean /\ SharedObject
    /\ Len(stack) = 2 /\ Top.node = "o2"
    /\ DOMAIN stack[1].acc = {"a"}
    /\ seenObjects = {"o1", "o2"}

----------------------------------------------------------------------------
(* C10: termination *)

\* C10: a top-level convert that does not return a Struct fails with
\* CircularReference or UnsupportedType.
C10_Terminates ==
    status = "thrown" => error.name \in {"CircularReference", "UnsupportedType"}

====
